---- MODULE Spec2Model ----
(***************************************************************************)
(* ContactDetailControl (src/SelectContactDetailControl/index.ts): the     *)
(* control's fields, the parts of the DOM it writes, the two asynchronous  *)
(* operations in flight (the contact fetch and the related-data timers)    *)
(* and one action per host call, DOM event and promise resolution.         *)
(*                                                                         *)
(* Text is a sequence of one-character strings, so that trim, toLowerCase, *)
(* includes and escapeHtml are computed character by character.            *)
(***************************************************************************)
EXTENDS Integers, Sequences, FiniteSets, TLC

\* ------------------------------------------------------------------ bounds
\* longest entities array the data source answers with
MaxRaw == 3
\* longest text typed into the search box
MaxText == 2
\* related-data loads started over the control's lifetime
MaxLoads == 2
\* Math.floor(Math.random() * 5) + 1 is at most 5
MaxRecords == 5

\* longest name of a contact whose details are shown
MaxName == 3
\* most categories a chart is drawn with
MaxCategories == 9

\* ------------------------------------------------------------------- text
UpperChars == <<"A","B","C","D","E","F","G","H","I","J","K","L","M",
                "N","O","P","Q","R","S","T","U","V","W","X","Y","Z">>
LowerChars == <<"a","b","c","d","e","f","g","h","i","j","k","l","m",
                "n","o","p","q","r","s","t","u","v","w","x","y","z">>

LowerChar(ch) ==
  IF \E i \in 1..Len(UpperChars) : UpperChars[i] = ch
  THEN LowerChars[CHOOSE i \in 1..Len(UpperChars) : UpperChars[i] = ch]
  ELSE ch

UpperChar(ch) ==
  IF \E i \in 1..Len(LowerChars) : LowerChars[i] = ch
  THEN UpperChars[CHOOSE i \in 1..Len(LowerChars) : LowerChars[i] = ch]
  ELSE ch

\* String.prototype.toLowerCase
toLowerCase(s) == [i \in 1..Len(s) |-> LowerChar(s[i])]

\* String.prototype.trim: whitespace is dropped at both ends only
RECURSIVE trimStart(_)
trimStart(s) ==
  IF s # <<>> /\ Head(s) = " " THEN trimStart(Tail(s)) ELSE s

RECURSIVE trimEnd(_)
trimEnd(s) ==
  IF s # <<>> /\ s[Len(s)] = " " THEN trimEnd(SubSeq(s, 1, Len(s) - 1)) ELSE s

trim(s) == trimEnd(trimStart(s))

\* s starts with t
startsWith(s, t) ==
  /\ Len(t) <= Len(s)
  /\ SubSeq(s, 1, Len(t)) = t

\* String.prototype.includes: scan the start positions from the left
RECURSIVE includes(_, _)
includes(s, t) ==
  IF startsWith(s, t) THEN TRUE
  ELSE IF s = <<>> THEN FALSE
  ELSE includes(Tail(s), t)

\* value.replace(/ch/g, rep): one pass, the replacement is not rescanned
RECURSIVE replaceAll(_, _, _)
replaceAll(s, ch, rep) ==
  IF s = <<>> THEN <<>>
  ELSE (IF Head(s) = ch THEN rep ELSE <<Head(s)>>) \o replaceAll(Tail(s), ch, rep)

\* escapeHtml gone wrong: the ampersand is replaced last, after the four
\* replacements that introduce ampersands
escapeHtml_ampLast(value) ==
  LET b == replaceAll(value, "<", <<"&","l","t",";">>)
      c == replaceAll(b, ">", <<"&","g","t",";">>)
      d == replaceAll(c, "\"", <<"&","q","u","o","t",";">>)
      e == replaceAll(d, "'", <<"&","#","0","3","9",";">>)
  IN  replaceAll(e, "&", <<"&","a","m","p",";">>)

\* the five passes of escapeHtml, in the order of the source
escapeHtml(value) ==
  LET a == replaceAll(value, "&", <<"&","a","m","p",";">>)
      b == replaceAll(a, "<", <<"&","l","t",";">>)
      c == replaceAll(b, ">", <<"&","g","t",";">>)
      d == replaceAll(c, "\"", <<"&","q","u","o","t",";">>)
  IN  replaceAll(d, "'", <<"&","#","0","3","9",";">>)


\* --------------------------------------------------------------- contacts
\* a field the data source did not send (undefined or null)
Null == <<"<null>">>

\* c.x ?? dflt
OrElse(v, dflt) == IF v = Null THEN dflt ELSE v

Unnamed == <<"U","n","n","a","m","e","d">>
NA == <<"N","/","A">>
Unknown == <<"U","n","k","n","o","w","n">>

\* records the data source can answer with: a complete one, one with every
\* optional field missing, one without an id, and one with HTML-special
\* characters that shares its city with the first
RawFull ==
  [contactid |-> <<"1">>, fullname |-> <<"A","l">>, emailaddress1 |-> <<"a","@","b">>,
   address1_city |-> <<"N","Y">>, jobtitle |-> <<"D","e","v">>]

RawBare ==
  [contactid |-> <<"2">>, fullname |-> Null, emailaddress1 |-> Null,
   address1_city |-> Null, jobtitle |-> Null]

RawNoId ==
  [contactid |-> Null, fullname |-> <<"B","o">>, emailaddress1 |-> <<"b","@","b">>,
   address1_city |-> <<"L","A">>, jobtitle |-> <<"D","e","v">>]

RawSpecial ==
  [contactid |-> <<"3">>, fullname |-> <<"a","&","<">>, emailaddress1 |-> <<"'">>,
   address1_city |-> <<"N","Y">>, jobtitle |-> <<"Q","A">>]

RawPool == { RawFull, RawBare, RawNoId, RawSpecial }

\* contactid is the primary key: an answer holds no record twice
Injective(q) == \A i, j \in 1..Len(q) : q[i] = q[j] => i = j

SeqsUpTo(S, n) == UNION { [1..k -> S] : k \in 0..n }

\* every answer of at most MaxRaw records
FetchResults == { q \in SeqsUpTo(RawPool, MaxRaw) : Injective(q) }

\* the answers the interaction with tabs and loads is explored on: no
\* contact, one contact, two contacts
FetchSample == { <<>>, <<RawFull>>, <<RawSpecial, RawBare>> }

\* the object literal of loadContacts' map callback
toContact(c) ==
  [ id    |-> OrElse(c.contactid, <<>>),
    name  |-> OrElse(c.fullname, Unnamed),
    email |-> OrElse(c.emailaddress1, NA),
    city  |-> OrElse(c.address1_city, Unknown),
    job   |-> OrElse(c.jobtitle, NA) ]

\* filterId gone wrong: the records without an id are kept
filterId_keepAll(q) == q

\* Array.prototype.filter with the predicate of the caller
RECURSIVE filterId(_)
filterId(q) ==
  IF q = <<>> THEN <<>>
  ELSE IF Head(q).id # <<>> THEN <<Head(q)>> \o filterId(Tail(q))
  ELSE filterId(Tail(q))

\* result.entities.map(...).filter(ct => ct.id)
mapEntities(entities) == filterId([i \in 1..Len(entities) |-> toContact(entities[i])])

\* this.contacts.filter(c => c.name.toLowerCase().includes(term))
RECURSIVE filterName(_, _)
filterName(q, term) ==
  IF q = <<>> THEN <<>>
  ELSE IF includes(toLowerCase(Head(q).name), term)
       THEN <<Head(q)>> \o filterName(Tail(q), term)
  ELSE filterName(Tail(q), term)

\* searchTerm gone wrong: the term keeps the case it was typed in
searchTerm_keepCase(value) == trim(value)

\* the term the search listener computes from the box's value
searchTerm(value) == toLowerCase(trim(value))

\* every text of at most MaxText characters typed into the search box
SearchAlphabet == {"a", "N", " "}

SearchTexts == SeqsUpTo(SearchAlphabet, MaxText)

\* the texts the interaction with tabs and loads is explored on: none, and
\* one that differs from every name in case and ends in a blank
SearchSample == { <<>>, <<"U","N"," ">> }

\* the characters names are written in here: the five escapeHtml replaces
\* and one it does not
NameAlphabet == {"&", "<", ">", "\"", "'", "a"}

\* one record for every name of at most MaxName characters
FetchNamed ==
  { << [contactid |-> <<"1">>, fullname |-> name, emailaddress1 |-> Null,
        address1_city |-> Null, jobtitle |-> Null] >> :
      name \in SeqsUpTo(NameAlphabet, MaxName) }

\* the i-th of the records that differ in city: the city has i characters
RawDistinct(i) ==
  [contactid |-> [k \in 1..i |-> "i"], fullname |-> Null, emailaddress1 |-> Null,
   address1_city |-> [k \in 1..i |-> "x"],
   jobtitle |-> [k \in 1..((i % 3) + 1) |-> "y"]]

\* the answers the chart's colours are explored on: n contacts in n cities
FetchDistinct == { [i \in 1..n |-> RawDistinct(i)] : n \in 0..MaxCategories }

\* ------------------------------------------------------------------- tabs
Entities == <<"opportunities", "activities", "orders", "quotes", "products",
              "accounts", "leads">>

EntitySet == { Entities[i] : i \in 1..Len(Entities) }

TabNames == {"contact"} \cup EntitySet

\* the characters of a data-tab value
Chars(tabName) ==
  CASE tabName = "contact" -> <<"c","o","n","t","a","c","t">>
    [] tabName = "opportunities" -> <<"o","p","p","o","r","t","u","n","i","t","i","e","s">>
    [] tabName = "activities" -> <<"a","c","t","i","v","i","t","i","e","s">>
    [] tabName = "orders" -> <<"o","r","d","e","r","s">>
    [] tabName = "quotes" -> <<"q","u","o","t","e","s">>
    [] tabName = "products" -> <<"p","r","o","d","u","c","t","s">>
    [] tabName = "accounts" -> <<"a","c","c","o","u","n","t","s">>
    [] tabName = "leads" -> <<"l","e","a","d","s">>

\* the options of #chartTypeSelector
ChartTypes == {"bar", "pie", "doughnut", "polarArea", "line", "radar"}

\* the options the user picks here
ChartTypeChoices == {"bar", "pie"}

\* the tabs the user clicks once a contact is selected
LoadTabs == {"contact", "orders", "leads"}

\* lengths Math.floor(Math.random() * 5) + 1 is drawn from here
RecordCounts == {1, MaxRecords}

\* the array loadRelatedData builds before it awaits
mockRelated(entityName, n) ==
  [ i \in 1..n |->
      [ id     |-> <<entityName, i>>,
        name   |-> <<<<UpperChar(Head(Chars(entityName)))>> \o Tail(Chars(entityName)),
                     "Record", i>>,
        type   |-> entityName,
        status |-> IF (i - 1) % 2 = 0 THEN "Active" ELSE "Closed" ] ]


\* ------------------------------------------------------------------ state
VARIABLES
  phase,             \* host lifecycle: "constructed", "ready" or "destroyed"
  fetch,             \* the retrieveMultipleRecords promise: "none", "pending", "resolved", "rejected"
  requests,          \* retrieveMultipleRecords calls issued
  pending,           \* loadRelatedData calls waiting on their 150 ms timer, oldest first
  loadsStarted,      \* loadRelatedData calls so far
  lastEvent,         \* the handler that ran last, with its argument
  chart,             \* this.chart
  chartType,         \* this.chartType
  chartContext,      \* this.chartContext is not null
  selectedContactId, \* this.selectedContactId
  contacts,          \* this.contacts
  entityCounts,      \* this.entityCounts
  tabContent,        \* #tabContent
  contactList,       \* #contactList
  countsList,        \* #entityCounts ul
  activeTabs,        \* the .tab buttons with class active
  activeBtns,        \* of #byCity and #byJob, those with class active
  searchBox,         \* #searchBox value
  undestroyed,       \* chart instances the control let go of without destroy()
  destroyThrew,      \* chart.destroy() threw while the last handler ran
  destroyMayThrow    \* the chart library at hand is one whose destroy() can throw

envVars == <<phase, fetch, requests, lastEvent>>

ctlVars == <<pending, loadsStarted, chart, chartType, chartContext, selectedContactId,
             contacts, entityCounts, tabContent, contactList, countsList, activeTabs,
             activeBtns, searchBox, undestroyed, destroyThrew, destroyMayThrow>>

vars == <<envVars, ctlVars>>

\* the control and its DOM as one value, threaded through the methods
Cur ==
  [ pending |-> pending, loadsStarted |-> loadsStarted, chart |-> chart,
    chartType |-> chartType, chartContext |-> chartContext,
    selectedContactId |-> selectedContactId, contacts |-> contacts,
    entityCounts |-> entityCounts, tabContent |-> tabContent,
    contactList |-> contactList, countsList |-> countsList,
    activeTabs |-> activeTabs, activeBtns |-> activeBtns, searchBox |-> searchBox,
    undestroyed |-> undestroyed, destroyMayThrow |-> destroyMayThrow,
    destroyThrows |-> FALSE, destroyThrew |-> FALSE ]

\* the same when the handler starts, told whether the chart library's
\* destroy() is going to throw while it runs
CurIf(throws) == [Cur EXCEPT !.destroyThrows = throws]

\* the state a method call leaves behind
Becomes(s) ==
  \E t \in {s} :
    /\ pending' = t.pending
    /\ loadsStarted' = t.loadsStarted
    /\ chart' = t.chart
    /\ chartType' = t.chartType
    /\ chartContext' = t.chartContext
    /\ selectedContactId' = t.selectedContactId
    /\ contacts' = t.contacts
    /\ entityCounts' = t.entityCounts
    /\ tabContent' = t.tabContent
    /\ contactList' = t.contactList
    /\ countsList' = t.countsList
    /\ activeTabs' = t.activeTabs
    /\ activeBtns' = t.activeBtns
    /\ searchBox' = t.searchBox
    /\ undestroyed' = t.undestroyed
    /\ destroyThrew' = t.destroyThrew
    /\ destroyMayThrow' = t.destroyMayThrow

\* chart?: Chart before the first renderChart
NoChart == [kind |-> "undefined"]

\* what a destroy() call can do: there is none without a chart
DestroyOutcomes == IF chart = NoChart \/ ~destroyMayThrow THEN {FALSE} ELSE BOOLEAN

\* no key set yet: entityCounts = {} and the empty <ul>
NoCounts == [e \in {} |-> 0]

\* an element whose textContent was assigned
Text(t) == [kind |-> "text", text |-> t]

\* the layout before init: nothing is rendered
NoDom == [kind |-> "absent"]

\* ---------------------------------------------------------------- methods
Palette == <<"#2563eb", "#10b981", "#f59e0b", "#ef4444", "#6366f1", "#14b8a6",
             "#fbbf24", "#ec4899">>

\* getColors gone wrong: past the palette's end the last colour is repeated
getColors_clamp(count) ==
  [i \in 1..count |-> Palette[IF i > Len(Palette) THEN Len(Palette) ELSE i]]

\* palette[i % palette.length] for i = 0 .. count - 1
getColors(count) == [i \in 1..count |-> Palette[((i - 1) % Len(Palette)) + 1]]

\* addCount gone wrong: a key seen again is not counted again
addCount_once(grouped, key) ==
  IF \E i \in 1..Len(grouped) : grouped[i][1] = key
  THEN grouped
  ELSE Append(grouped, <<key, 1>>)

\* grouped[key] = (grouped[key] || 0) + 1, keys kept in insertion order
addCount(grouped, key) ==
  IF \E i \in 1..Len(grouped) : grouped[i][1] = key
  THEN [i \in 1..Len(grouped) |->
          IF grouped[i][1] = key THEN <<key, grouped[i][2] + 1>> ELSE grouped[i]]
  ELSE Append(grouped, <<key, 1>>)

RECURSIVE countKeys(_, _)
countKeys(keys, grouped) ==
  IF keys = <<>> THEN grouped
  ELSE countKeys(Tail(keys), addCount(grouped, Head(keys)))

\* destroyChart gone wrong: the previous instance is left as it is
destroyChart_skip(ch) == ch

\* this.chart.destroy() inside try/catch
destroyChart(ch) ==
  IF ch = NoChart THEN ch ELSE [ch EXCEPT !.destroyed = TRUE]

\* if (this.chart) { try { this.chart.destroy() } catch (e) { console.warn } }
tryDestroy(s) ==
  IF s.chart = NoChart THEN s
  ELSE [s EXCEPT !.chart = destroyChart(@), !.destroyThrew = @ \/ s.destroyThrows]

\* renderChart gone wrong: no try/catch, so a throwing destroy() ends the call
renderChart_noCatch(s, grouped, label) ==
  LET labels == [i \in 1..Len(grouped) |-> grouped[i][1]]
      data == [i \in 1..Len(grouped) |-> grouped[i][2]]
      t == tryDestroy(s)
  IN  IF ~t.chartContext \/ t.destroyThrew THEN t
      ELSE [t EXCEPT
              !.chart = [ kind |-> "chart", type |-> s.chartType, labels |-> labels,
                          label |-> label, data |-> data,
                          backgroundColor |-> getColors(Len(labels)),
                          destroyed |-> FALSE ],
              !.undestroyed = IF t.chart # NoChart /\ ~t.chart.destroyed THEN @ + 1 ELSE @]

renderChart(s, grouped, label) ==
  LET labels == [i \in 1..Len(grouped) |-> grouped[i][1]]
      data == [i \in 1..Len(grouped) |-> grouped[i][2]]
      t == tryDestroy(s)
  IN  IF ~t.chartContext THEN t
      ELSE [t EXCEPT
              !.chart = [ kind |-> "chart", type |-> s.chartType, labels |-> labels,
                          label |-> label, data |-> data,
                          backgroundColor |-> getColors(Len(labels)),
                          destroyed |-> FALSE ],
              !.undestroyed = IF t.chart # NoChart /\ ~t.chart.destroyed THEN @ + 1 ELSE @]

updateChart(s, groupBy) ==
  IF ~s.chartContext THEN s
  ELSE LET keys == [i \in 1..Len(s.contacts) |->
                      IF groupBy = "city" THEN s.contacts[i].city ELSE s.contacts[i].job]
       IN  renderChart(s, countKeys(keys, <<>>), "Contacts")

updateChartByEntity(s, records, entityName) ==
  IF ~s.chartContext THEN s
  ELSE LET keys == [i \in 1..Len(records) |-> records[i].status]
       IN  renderChart(s, countKeys(keys, <<>>), entityName)

renderEntityCounts(s) == [s EXCEPT !.countsList = s.entityCounts]

RECURSIVE zeroCounts(_, _)
zeroCounts(entities, counts) ==
  IF entities = <<>> THEN counts
  ELSE zeroCounts(Tail(entities),
                  [e \in DOMAIN counts \cup {Head(entities)} |->
                     IF e = Head(entities) THEN 0 ELSE counts[e]])

calculateEntityCounts(s) ==
  renderEntityCounts([s EXCEPT !.entityCounts = zeroCounts(Entities, @)])

renderContactList(s, list) ==
  IF list = <<>>
  THEN [s EXCEPT !.contactList = [text |-> "No contacts found.", cards |-> <<>>]]
  ELSE [s EXCEPT !.contactList = [text |-> "", cards |-> list]]

showContactDetails(s, contact) ==
  updateChart([s EXCEPT !.tabContent =
                 [ kind  |-> "details",
                   name  |-> escapeHtml(contact.name),
                   email |-> escapeHtml(contact.email),
                   city  |-> escapeHtml(contact.city),
                   job   |-> escapeHtml(contact.job) ]],
              "city")

\* loadRelatedData gone wrong: the promise it awaits is never resolved
loadRelatedData_noTimer(s, entityName, n) ==
  [s EXCEPT !.tabContent = Text("Loading related records..."),
            !.loadsStarted = @ + 1]

\* loadRelatedData up to its await; n is the random length
loadRelatedData(s, entityName, n) ==
  [s EXCEPT !.tabContent = Text("Loading related records..."),
            !.pending = Append(@, [entityName |-> entityName,
                                   records |-> mockRelated(entityName, n)]),
            !.loadsStarted = @ + 1]

\* renderRelatedRecords gone wrong: every count is set to the records loaded
renderRelatedRecords_allCounts(s, records, entityName) ==
  renderEntityCounts(
    [s EXCEPT !.tabContent =
                [ kind   |-> "related",
                  entity |-> escapeHtml(Chars(entityName)),
                  total  |-> Len(records),
                  items  |-> [i \in 1..Len(records) |->
                                <<records[i].name, records[i].status>>] ],
              !.entityCounts = [e \in DOMAIN @ \cup {entityName} |-> Len(records)]])

renderRelatedRecords(s, records, entityName) ==
  renderEntityCounts(
    [s EXCEPT !.tabContent =
                [ kind   |-> "related",
                  entity |-> escapeHtml(Chars(entityName)),
                  total  |-> Len(records),
                  items  |-> [i \in 1..Len(records) |->
                                <<records[i].name, records[i].status>>] ],
              !.entityCounts = [e \in DOMAIN @ \cup {entityName} |->
                                  IF e = entityName THEN Len(records) ELSE @[e]]])

\* resumeRelatedData gone wrong: a load whose tab is no longer active is dropped
resumeRelatedData_ifActive(s, load) ==
  IF s.activeTabs = {load.entityName}
  THEN updateChartByEntity(renderRelatedRecords(s, load.records, load.entityName),
                           load.records, load.entityName)
  ELSE s

\* loadRelatedData after its await
resumeRelatedData(s, load) ==
  updateChartByEntity(renderRelatedRecords(s, load.records, load.entityName),
                      load.records, load.entityName)

\* switchTab gone wrong: the prompt is answered before the tab is made active
switchTab_promptFirst(s, tabName, n) ==
  LET t == [s EXCEPT !.activeTabs = {tabName}]
      found == { i \in 1..Len(t.contacts) : t.contacts[i].id = t.selectedContactId }
  IN  IF s.selectedContactId = Null /\ tabName # "contact"
      THEN [s EXCEPT !.tabContent = Text("Select a contact first.")]
      ELSE IF tabName = "contact"
      THEN IF found # {}
           THEN showContactDetails(t, t.contacts[CHOOSE i \in found : \A j \in found : i <= j])
           ELSE t
      ELSE loadRelatedData(t, tabName, n)

\* switchTab gone wrong: the check for a selection is missing
switchTab_noPrompt(s, tabName, n) ==
  LET t == [s EXCEPT !.activeTabs = {tabName}]
      found == { i \in 1..Len(t.contacts) : t.contacts[i].id = t.selectedContactId }
  IN  IF tabName = "contact"
      THEN IF found # {}
           THEN showContactDetails(t, t.contacts[CHOOSE i \in found : \A j \in found : i <= j])
           ELSE t
      ELSE loadRelatedData(t, tabName, n)

switchTab(s, tabName, n) ==
  LET t == [s EXCEPT !.activeTabs = {tabName}]
      found == { i \in 1..Len(t.contacts) : t.contacts[i].id = t.selectedContactId }
  IN  IF t.selectedContactId = Null /\ tabName # "contact"
      THEN [t EXCEPT !.tabContent = Text("Select a contact first.")]
      ELSE IF tabName = "contact"
      THEN IF found # {}
           THEN showContactDetails(t, t.contacts[CHOOSE i \in found : \A j \in found : i <= j])
           ELSE t
      ELSE loadRelatedData(t, tabName, n)

\* onContactSelect gone wrong: the name is stored where the id belongs
onContactSelect_storesName(s, contact) ==
  showContactDetails(
    switchTab([s EXCEPT !.selectedContactId = contact.name], "contact", 1),
    contact)

\* onContactSelect gone wrong: the selected id is not stored
onContactSelect_keepsId(s, contact) ==
  showContactDetails(switchTab(s, "contact", 1), contact)

onContactSelect(s, contact) ==
  showContactDetails(
    switchTab([s EXCEPT !.selectedContactId = contact.id], "contact", 1),
    contact)

renderLayout(s) ==
  [s EXCEPT !.tabContent = Text("Select a contact to view details."),
            !.contactList = [text |-> "", cards |-> <<>>],
            !.countsList = NoCounts,
            !.activeTabs = {"contact"},
            !.activeBtns = {"byCity"},
            !.searchBox = <<>>,
            !.chartContext = TRUE]

\* the try block of loadContacts after its await
loadContactsResolved(s, entities) ==
  LET t == [s EXCEPT !.contacts = mapEntities(entities)]
  IN  updateChart(calculateEntityCounts(renderContactList(t, t.contacts)), "city")

\* loadContactsRejected gone wrong: the entity counts are seeded all the same
loadContactsRejected_seeds(s) ==
  calculateEntityCounts(
    [s EXCEPT !.tabContent = Text("Failed to load contacts. Check console for details.")])

\* the catch block of loadContacts
loadContactsRejected(s) ==
  [s EXCEPT !.tabContent = Text("Failed to load contacts. Check console for details.")]


\* ---------------------------------------------------------------- actions
Init ==
  /\ phase = "constructed"
  /\ fetch = "none"
  /\ requests = 0
  /\ pending = <<>>
  /\ loadsStarted = 0
  /\ lastEvent = [op |-> "new"]
  /\ chart = NoChart
  /\ chartType = "bar"
  /\ chartContext = FALSE
  /\ selectedContactId = Null
  /\ contacts = <<>>
  /\ entityCounts = NoCounts
  /\ tabContent = NoDom
  /\ contactList = NoDom
  /\ countsList = NoCounts
  /\ activeTabs = {}
  /\ activeBtns = {}
  /\ searchBox = <<>>
  /\ undestroyed = 0
  /\ destroyThrew = FALSE
  /\ destroyMayThrow = FALSE

\* init(): renderLayout, registerEventHandlers, void loadContacts()
HostInit ==
  /\ phase = "constructed"
  /\ phase' = "ready"
  /\ Becomes(renderLayout(Cur))
  /\ fetch' = "pending"
  /\ requests' = requests + 1
  /\ lastEvent' = [op |-> "init"]

\* retrieveMultipleRecords resolves with one of answers; nothing cancels it
\* on destroy
FetchResolveWith(answers) ==
  /\ fetch = "pending"
  /\ \E entities \in answers, throws \in DestroyOutcomes :
       /\ Becomes(loadContactsResolved(CurIf(throws), entities))
       /\ lastEvent' = [op |-> "fetchResolve", entities |-> entities]
  /\ fetch' = "resolved"
  /\ UNCHANGED <<phase, requests>>

FetchResolve == FetchResolveWith(FetchSample)

FetchResolveAny == FetchResolveWith(FetchResults)

\* retrieveMultipleRecords rejects
FetchReject ==
  /\ fetch = "pending"
  /\ Becomes(loadContactsRejected(Cur))
  /\ fetch' = "rejected"
  /\ lastEvent' = [op |-> "fetchReject"]
  /\ UNCHANGED <<phase, requests>>

\* input event of #searchBox, the box now holding one of texts
SearchInputWith(texts) ==
  /\ phase = "ready"
  /\ \E value \in texts :
       /\ value # searchBox
       /\ Becomes(renderContactList([Cur EXCEPT !.searchBox = value],
                                    filterName(contacts, searchTerm(value))))
  /\ lastEvent' = [op |-> "search"]
  /\ UNCHANGED <<phase, fetch, requests>>

SearchInput == SearchInputWith(SearchSample)

SearchInputAny == SearchInputWith(SearchTexts)

\* click on a .contact-card
ContactClick ==
  /\ phase = "ready"
  /\ \E i \in 1..Len(contactList.cards), throws \in DestroyOutcomes :
       /\ Becomes(onContactSelect(CurIf(throws), contactList.cards[i]))
       /\ lastEvent' = [op |-> "select", contact |-> contactList.cards[i]]
  /\ UNCHANGED <<phase, fetch, requests>>

\* click on a .tab
TabClick ==
  /\ phase = "ready"
  /\ \E tabName \in TabNames :
       /\ selectedContactId # Null => tabName \in LoadTabs
       /\ (selectedContactId # Null /\ tabName # "contact") => loadsStarted < MaxLoads
       /\ \E n \in (IF selectedContactId # Null /\ tabName # "contact"
                     THEN RecordCounts ELSE {1}),
               throws \in (IF selectedContactId # Null /\ tabName = "contact"
                           THEN DestroyOutcomes ELSE {FALSE}) :
            /\ Becomes(switchTab(CurIf(throws), tabName, n))
            /\ lastEvent' = [op |-> "tab", tab |-> tabName]
  /\ UNCHANGED <<phase, fetch, requests>>

\* click on #byCity
ByCityClick ==
  /\ phase = "ready"
  /\ \E throws \in DestroyOutcomes :
       Becomes(updateChart([CurIf(throws) EXCEPT
                              !.activeBtns = (@ \cup {"byCity"}) \ {"byJob"}], "city"))
  /\ lastEvent' = [op |-> "byCity"]
  /\ UNCHANGED <<phase, fetch, requests>>

\* click on #byJob
ByJobClick ==
  /\ phase = "ready"
  /\ \E throws \in DestroyOutcomes :
       Becomes(updateChart([CurIf(throws) EXCEPT
                              !.activeBtns = (@ \cup {"byJob"}) \ {"byCity"}], "job"))
  /\ lastEvent' = [op |-> "byJob"]
  /\ UNCHANGED <<phase, fetch, requests>>

\* change event of #chartTypeSelector
ChartTypeChangeWith(choices) ==
  /\ phase = "ready"
  /\ \E value \in choices, throws \in DestroyOutcomes :
       /\ value # chartType
       /\ Becomes(updateChart([CurIf(throws) EXCEPT !.chartType = value],
                              IF "byCity" \in activeBtns THEN "city" ELSE "job"))
  /\ lastEvent' = [op |-> "chartType"]
  /\ UNCHANGED <<phase, fetch, requests>>

ChartTypeChange == ChartTypeChangeWith(ChartTypeChoices)

ChartTypeChangeAny == ChartTypeChangeWith(ChartTypes)

\* the oldest 150 ms timer fires and loadRelatedData resumes; equal delays
\* fire in the order they were set, and destroy() clears none of them
LoadResolve ==
  /\ pending # <<>>
  /\ \E throws \in DestroyOutcomes :
       Becomes(resumeRelatedData([CurIf(throws) EXCEPT !.pending = Tail(@)], Head(pending)))
  /\ lastEvent' = [op |-> "loadResolve", load |-> Head(pending)]
  /\ UNCHANGED <<phase, fetch, requests>>

\* updateView(): empty body
UpdateView ==
  /\ phase = "ready"
  /\ Becomes(Cur)
  /\ lastEvent' = [op |-> "updateView"]
  /\ UNCHANGED <<phase, fetch, requests>>

\* destroy(): the host removes the container, the user can no longer act
Destroy ==
  /\ phase = "ready"
  /\ phase' = "destroyed"
  /\ \E throws \in DestroyOutcomes : Becomes(tryDestroy(CurIf(throws)))
  /\ lastEvent' = [op |-> "destroy"]
  /\ UNCHANGED <<fetch, requests>>

Next ==
  \/ HostInit
  \/ FetchResolve
  \/ FetchReject
  \/ SearchInput
  \/ ContactClick
  \/ TabClick
  \/ ByCityClick
  \/ ByJobClick
  \/ ChartTypeChange
  \/ LoadResolve
  \/ UpdateView
  \/ Destroy

Spec == Init /\ [][Next]_vars

\* the control on a chart library whose destroy() can throw, every handler
\* that draws a chart included
InitFault ==
  /\ phase = "constructed"
  /\ fetch = "none"
  /\ requests = 0
  /\ pending = <<>>
  /\ loadsStarted = 0
  /\ lastEvent = [op |-> "new"]
  /\ chart = NoChart
  /\ chartType = "bar"
  /\ chartContext = FALSE
  /\ selectedContactId = Null
  /\ contacts = <<>>
  /\ entityCounts = NoCounts
  /\ tabContent = NoDom
  /\ contactList = NoDom
  /\ countsList = NoCounts
  /\ activeTabs = {}
  /\ activeBtns = {}
  /\ searchBox = <<>>
  /\ undestroyed = 0
  /\ destroyThrew = FALSE
  /\ destroyMayThrow = TRUE

NextFault ==
  \/ HostInit
  \/ FetchResolve
  \/ ContactClick
  \/ TabClick
  \/ ByCityClick
  \/ ByJobClick
  \/ ChartTypeChange
  \/ LoadResolve
  \/ Destroy

SpecFault == InitFault /\ [][NextFault]_vars

\* loading, searching and grouping on every answer and every text within the
\* bounds; no tab is clicked
NextData ==
  \/ HostInit
  \/ FetchResolveAny
  \/ FetchReject
  \/ SearchInputAny
  \/ ByCityClick
  \/ ByJobClick

SpecData == Init /\ [][NextData]_vars


\* the chart on up to MaxCategories categories, in each of the six chart types
FetchResolveDistinct == FetchResolveWith(FetchDistinct)

NextPalette ==
  \/ HostInit
  \/ FetchResolveDistinct
  \/ ByCityClick
  \/ ByJobClick
  \/ ChartTypeChangeAny

SpecPalette == Init /\ [][NextPalette]_vars

\* the detail panel on every name within the bound
FetchResolveNamed == FetchResolveWith(FetchNamed)

NextEscape ==
  \/ HostInit
  \/ FetchResolveNamed
  \/ ContactClick

SpecEscape == Init /\ [][NextEscape]_vars

\* selections, tab clicks and loads, with every timer that was set firing:
\* setTimeout(resolve, 150) is never cleared
NextLive ==
  \/ HostInit
  \/ FetchResolve
  \/ ContactClick
  \/ TabClick
  \/ LoadResolve
  \/ Destroy

\* the step LoadResolve takes, told by the queue of timers alone
TimerFires == pending # <<>> /\ pending' = Tail(pending)

SpecLive == Init /\ [][NextLive]_vars /\ WF_pending(TimerFires)

\* ------------------------------------------------------ claims: vocabulary
\* the detail panel of contact c
DetailsOf(c) ==
  [ kind |-> "details", name |-> escapeHtml(c.name), email |-> escapeHtml(c.email),
    city |-> escapeHtml(c.city), job |-> escapeHtml(c.job) ]

\* list holds exactly the elements of all that satisfy P, in the order of all
SelectedInOrder(list, all, P(_)) ==
  LET idx == { i \in 1..Len(all) : P(all[i]) }
  IN  /\ Len(list) = Cardinality(idx)
      /\ \A i \in idx : list[Cardinality({ j \in idx : j <= i })] = all[i]

\* t occurs in s when case is ignored
ContainsIgnoringCase(s, t) ==
  \E o \in 0..Len(s) :
    /\ o + Len(t) <= Len(s)
    /\ \A k \in 1..Len(t) : LowerChar(s[o + k]) = LowerChar(t[k])

RECURSIVE SumOf(_)
SumOf(q) == IF q = <<>> THEN 0 ELSE Head(q) + SumOf(Tail(q))

City(c) == c.city
Job(c) == c.job

\* ch plots, under the series "Contacts", how many elements of q have each value of F
IsGroupingBy(ch, q, F(_)) ==
  LET values == { F(q[i]) : i \in 1..Len(q) }
  IN  /\ ch.kind = "chart"
      /\ ch.label = "Contacts"
      /\ Len(ch.labels) = Len(ch.data)
      /\ { ch.labels[i] : i \in 1..Len(ch.labels) } = values
      /\ Len(ch.labels) = Cardinality(values)
      /\ \A i \in 1..Len(ch.labels) :
           ch.data[i] = Cardinality({ j \in 1..Len(q) : F(q[j]) = ch.labels[i] })
      /\ SumOf(ch.data) = Len(q)

FailedToLoad == Text("Failed to load contacts. Check console for details.")

\* ----------------------------------------------------------------- claims
\* C1: while the control is live and the active tab is "contact", the tab
\* content is the detail panel of the selected contact when one is selected,
\* and a prompt to select one otherwise (the message of a rejected fetch is
\* let through as well).
C1_ContactTabShowsSelection ==
  (phase = "ready" /\ activeTabs = {"contact"}) =>
    IF selectedContactId # Null
    THEN \E i \in 1..Len(contacts) :
           /\ contacts[i].id = selectedContactId
           /\ tabContent = DetailsOf(contacts[i])
    ELSE tabContent \in { Text("Select a contact to view details."),
                          Text("Select a contact first."), FailedToLoad }

\* C2: once destroy() has run, the resolution of a pending related-data load
\* writes neither the tab content nor the entity-count list and creates no
\* chart.
C2_NoRenderAfterDestroy ==
  [][(phase = "destroyed" /\ lastEvent'.op = "loadResolve") =>
       /\ tabContent' = tabContent
       /\ countsList' = countsList
       /\ chart' = chart]_vars

\* C3: right after onContactSelect(c) the selected id is c.id, "contact" is
\* the only active tab and the tab content is the detail panel of c.
C3_SelectShowsContact ==
  lastEvent.op = "select" =>
    /\ selectedContactId = lastEvent.contact.id
    /\ activeTabs = {"contact"}
    /\ tabContent = DetailsOf(lastEvent.contact)

C3_Witness ==
  /\ lastEvent.op = "select"
  /\ lastEvent.contact.name = <<"a","&","<">>
  /\ pending # <<>>
  /\ Len(contacts) = 2

\* C4: with no contact selected, a click on a tab other than "contact" sets
\* the tab content to "Select a contact first." and starts no load: the
\* pending loads, the entity counts, their list and the chart stay as they
\* were.
C4_NoSelectionNoLoad ==
  [][(lastEvent'.op = "tab" /\ lastEvent'.tab # "contact" /\ selectedContactId = Null) =>
       /\ tabContent' = Text("Select a contact first.")
       /\ UNCHANGED <<pending, loadsStarted, entityCounts, countsList, chart, undestroyed>>]_vars

C4_Witness ==
  /\ lastEvent.op = "tab"
  /\ lastEvent.tab = "quotes"
  /\ selectedContactId = Null
  /\ contacts # <<>>
  /\ chart # NoChart

\* C5: a pending load leaves the queue only by resolving, and whatever tab
\* is active then, its resolution writes the tab content, the count of its
\* entity and the chart from its own records, so the load that resolved last
\* is the one shown.
C5_LastResolvedWins ==
  /\ [](lastEvent.op = "loadResolve" =>
          LET load == lastEvent.load
              n == Len(load.records)
          IN  /\ tabContent.kind = "related"
              /\ tabContent.entity = Chars(load.entityName)
              /\ tabContent.total = n
              /\ Len(tabContent.items) = n
              /\ entityCounts[load.entityName] = n
              /\ countsList = entityCounts
              /\ chart.kind = "chart"
              /\ chart.label = load.entityName
              /\ ~chart.destroyed
              /\ SumOf(chart.data) = n)
  /\ [][pending' # pending =>
          \/ /\ lastEvent'.op = "loadResolve"
             /\ lastEvent'.load = Head(pending)
             /\ pending' = Tail(pending)
          \/ /\ lastEvent'.op = "tab"
             /\ Len(pending') = Len(pending) + 1
             /\ SubSeq(pending', 1, Len(pending)) = pending]_vars

C5_Witness ==
  /\ lastEvent.op = "loadResolve"
  /\ pending # <<>>
  /\ lastEvent.load.entityName = "orders"
  /\ Head(pending).entityName = "leads"
  /\ activeTabs = {"contact"}

\* C6: the control never lets go of a chart instance without having called
\* destroy() on it, so at most one instance that was not destroyed exists.
C6_OneLiveChart ==
  undestroyed + (IF chart # NoChart /\ ~chart.destroyed THEN 1 ELSE 0) <= 1

C6_Witness ==
  /\ lastEvent.op = "chartType"
  /\ chart # NoChart
  /\ ~chart.destroyed
  /\ loadsStarted > 0
  /\ pending = <<>>

\* C7: when the contact fetch rejects, that step writes the failure message
\* to the tab content and nothing else; from then on the stored sequence is
\* empty, no card and no entity count is shown, any chart drawn has no
\* category, and only one retrieveMultipleRecords call was ever issued.
C7_FetchFailure ==
  /\ [](requests <= 1)
  /\ [](fetch = "rejected" =>
          /\ contacts = <<>>
          /\ contactList.cards = <<>>
          /\ entityCounts = NoCounts
          /\ countsList = NoCounts
          /\ chart # NoChart => chart.labels = <<>>)
  /\ [][lastEvent'.op = "fetchReject" =>
          /\ tabContent' = FailedToLoad
          /\ UNCHANGED <<contacts, contactList, entityCounts, countsList, chart, requests,
                         selectedContactId, pending>>]_vars

C7_Witness ==
  /\ fetch = "rejected"
  /\ lastEvent.op = "fetchReject"
  /\ tabContent = FailedToLoad
  /\ chart # NoChart

\* C8 as claimed: after a search input the cards are the stored contacts, in
\* stored order, whose name contains the text of the search box when case is
\* ignored.
C8_FilterByRawText ==
  lastEvent.op = "search" =>
    LET Matches(c) == ContainsIgnoringCase(c.name, searchBox)
    IN  SelectedInOrder(contactList.cards, contacts, Matches)

\* C8 as amended: after a search input the cards are the stored contacts, in
\* stored order, whose name contains, when case is ignored, the text of the
\* search box without its leading and trailing blanks; the input leaves the
\* stored sequence as it was.
C8_FilterByTrimmedText ==
  /\ [](lastEvent.op = "search" =>
          LET Matches(c) == ContainsIgnoringCase(c.name, trim(searchBox))
          IN  SelectedInOrder(contactList.cards, contacts, Matches))
  /\ [][lastEvent'.op = "search" => contacts' = contacts]_vars

C8_Witness ==
  /\ lastEvent.op = "search"
  /\ searchBox = <<"N"," ">>
  /\ Len(contactList.cards) = 1
  /\ Len(contacts) = 3

\* C9: after a click on a grouping toggle, the chart's labels are the
\* distinct values of that field among the stored contacts, each count is the
\* number of contacts with that value, and the counts sum to the number of
\* contacts.
C9_GroupedCounts ==
  /\ lastEvent.op = "byCity" => IsGroupingBy(chart, contacts, City)
  /\ lastEvent.op = "byJob" => IsGroupingBy(chart, contacts, Job)

C9_Witness ==
  /\ lastEvent.op = "byCity"
  /\ chart.labels = << <<"N","Y">>, Unknown >>
  /\ chart.data = <<2, 1>>

\* C10: every stored contact has a non-empty id, and right after the fetch
\* resolves the stored sequence is the records with an id, in their order,
\* with the defaults filled in; all of it is listed, the seven entity counts
\* are zero and shown, and the chart groups the contacts by city.
C10_LoadedContacts ==
  /\ \A i \in 1..Len(contacts) : contacts[i].id # <<>>
  /\ lastEvent.op = "fetchResolve" =>
       LET raw == lastEvent.entities
           HasId(r) == r.contactid # Null /\ r.contactid # <<>>
           withId == { i \in 1..Len(raw) : HasId(raw[i]) }
           Stored(r) ==
             [ id |-> r.contactid,
               name |-> IF r.fullname = Null THEN Unnamed ELSE r.fullname,
               email |-> IF r.emailaddress1 = Null THEN NA ELSE r.emailaddress1,
               city |-> IF r.address1_city = Null THEN Unknown ELSE r.address1_city,
               job |-> IF r.jobtitle = Null THEN NA ELSE r.jobtitle ]
       IN  /\ Len(contacts) = Cardinality(withId)
           /\ \A i \in withId :
                contacts[Cardinality({ j \in withId : j <= i })] = Stored(raw[i])
           /\ contactList.cards = contacts
           /\ DOMAIN entityCounts = EntitySet
           /\ Cardinality(EntitySet) = 7
           /\ \A e \in EntitySet : entityCounts[e] = 0
           /\ countsList = entityCounts
           /\ IsGroupingBy(chart, contacts, City)

C10_Witness ==
  /\ lastEvent.op = "fetchResolve"
  /\ Len(lastEvent.entities) = 3
  /\ lastEvent.entities[2].contactid = Null
  /\ Len(contacts) = 2
  /\ contacts[2].name = Unnamed
  /\ activeBtns = {"byJob"}

\* C11: a chart-type change, made while a chart is drawn, leaves the chart's
\* labels, counts and series as they were and gives it the selected type.
C11_RedrawsCurrentGrouping ==
  [][(lastEvent'.op = "chartType" /\ chart # NoChart) =>
       /\ chart'.kind = "chart"
       /\ chart'.type = chartType'
       /\ chart'.labels = chart.labels
       /\ chart'.data = chart.data
       /\ chart'.label = chart.label]_vars

\* C12: the entity counts change only when the fetch resolves, which seeds
\* the seven of them with zero during initialization, and when a related
\* load resolves, which sets the count of its entity, and of no other, to the
\* number of records loaded, between 1 and 5; search, selection, tab click,
\* grouping toggle, chart-type change, updateView and destroy leave them
\* as they are.
C12_CountsFrame ==
  [][/\ entityCounts' # entityCounts =>
          \/ /\ lastEvent'.op = "fetchResolve"
             /\ entityCounts = NoCounts
             /\ DOMAIN entityCounts' = EntitySet
             /\ \A e \in EntitySet : entityCounts'[e] = 0
          \/ /\ lastEvent'.op = "loadResolve"
             /\ DOMAIN entityCounts' = DOMAIN entityCounts
             /\ \A e \in DOMAIN entityCounts :
                  e # Head(pending).entityName => entityCounts'[e] = entityCounts[e]
     /\ lastEvent'.op = "loadResolve" =>
          /\ entityCounts'[Head(pending).entityName] = Len(Head(pending).records)
          /\ Len(Head(pending).records) \in 1..5
     /\ lastEvent'.op \in {"search", "select", "tab", "byCity", "byJob", "chartType",
                          "updateView", "destroy", "fetchReject"} =>
          entityCounts' = entityCounts]_vars

C12_Witness ==
  /\ lastEvent.op = "loadResolve"
  /\ lastEvent.load.entityName = "leads"
  /\ entityCounts["orders"] = 5
  /\ entityCounts["leads"] = 1
  /\ entityCounts["quotes"] = 0

\* C13: when destroy() of the previous chart throws inside a handler, the
\* handler still runs to its end: the control holds a new chart, of the
\* selected type, with the data that handler asked for (contact counts by
\* city after the fetch, a selection, the contact tab and By City, by job
\* after By Job, by the active toggle after a chart-type change, the status
\* counts of the loaded records after a load); and while the host keeps the
\* control, the grouping toggles and the chart-type selector keep answering.
C13_TeardownFailureCaught ==
  /\ [][(destroyThrew' /\ lastEvent'.op # "destroy") =>
          /\ chart'.kind = "chart"
          /\ ~chart'.destroyed
          /\ chart'.type = chartType'
          /\ chart'.backgroundColor = getColors(Len(chart'.labels))
          /\ lastEvent'.op \in {"fetchResolve", "select", "tab", "byCity"} =>
               IsGroupingBy(chart', contacts', City)
          /\ lastEvent'.op = "byJob" => IsGroupingBy(chart', contacts', Job)
          /\ lastEvent'.op = "chartType" =>
               IF "byCity" \in activeBtns'
               THEN IsGroupingBy(chart', contacts', City)
               ELSE IsGroupingBy(chart', contacts', Job)
          /\ lastEvent'.op = "loadResolve" =>
               LET records == lastEvent'.load.records
               IN  /\ chart'.label = lastEvent'.load.entityName
                   /\ Len(chart'.labels) = Len(chart'.data)
                   /\ SumOf(chart'.data) = Len(records)
                   /\ \A i \in 1..Len(chart'.labels) :
                        chart'.data[i] =
                          Cardinality({ j \in 1..Len(records) :
                                          records[j].status = chart'.labels[i] })
                   /\ tabContent'.kind = "related"
                   /\ entityCounts'[lastEvent'.load.entityName] = Len(records)]_vars
  /\ [](phase = "ready" =>
          /\ ENABLED ByCityClick
          /\ ENABLED ByJobClick
          /\ ENABLED ChartTypeChange)

C13_Witness ==
  /\ destroyThrew
  /\ lastEvent.op = "loadResolve"
  /\ chart.kind = "chart"
  /\ ~chart.destroyed
  /\ chart.label = "orders"
  /\ chart.labels = <<"Active", "Closed">>
  /\ chart.data = <<3, 2>>

\* C14: once the contact load has stored the contacts, no search, selection,
\* tab click, load resolution, toggle, chart-type change or updateView changes
\* their number, their order or any field, and destroy leaves the control
\* without stored contacts.
C14_DiscardedOnDestroy ==
  [][/\ lastEvent'.op \in {"search", "select", "tab", "loadResolve", "byCity", "byJob",
                          "chartType", "updateView"} => contacts' = contacts
     /\ lastEvent'.op = "destroy" => contacts' = <<>>]_vars

\* C15: once init has rendered the layout exactly one tab is active, it is one
\* of the eight tab names, it is "contact" right after init, a click on tab t
\* leaves t the active tab (the click answered by "Select a contact first."
\* included), and while the host keeps the control a click on any of the
\* eight tabs, from whichever tab is active, makes that tab the active one.
C15_OneActiveTab ==
  /\ Cardinality(TabNames) = 8
  /\ phase # "constructed" =>
       /\ Cardinality(activeTabs) = 1
       /\ activeTabs \subseteq TabNames
       /\ lastEvent.op = "init" => activeTabs = {"contact"}
       /\ lastEvent.op = "tab" => activeTabs = {lastEvent.tab}
       /\ phase = "ready" =>
            \E s \in {Cur} :
              \A t \in TabNames : switchTab(s, t, MaxRecords).activeTabs = {t}

C15_Witness ==
  /\ lastEvent.op = "tab"
  /\ lastEvent.tab = "quotes"
  /\ selectedContactId = Null
  /\ contacts # <<>>
  /\ tabContent = Text("Select a contact first.")
  /\ activeTabs = {"quotes"}

\* C16: a chart of N categories holds N colours, the palette has eight
\* entries, the colour of the category with (zero-based) index i is palette
\* entry i mod 8, and so the category with index 8 has the colour of the
\* category with index 0.
C16_ColoursCycle ==
  chart # NoChart =>
    LET n == Len(chart.labels)
        colours == chart.backgroundColor
    IN  /\ Len(Palette) = 8
        /\ Len(colours) = n
        /\ \A i \in 0..(n - 1) : colours[i + 1] = Palette[(i % 8) + 1]
        /\ \A i \in 1..n : i > 8 => colours[i] = colours[i - 8]
        /\ n >= 9 => colours[9] = "#2563eb"

C16_Witness ==
  /\ chart # NoChart
  /\ chart.label = "Contacts"
  /\ chart.type = "radar"
  /\ Len(chart.labels) = 9
  /\ chart.backgroundColor[8] = "#ec4899"
  /\ chart.backgroundColor[9] = chart.backgroundColor[1]

\* the entity of a special character, the character itself otherwise
EntityOf(ch) ==
  CASE ch = "&" -> <<"&","a","m","p",";">>
    [] ch = "<" -> <<"&","l","t",";">>
    [] ch = ">" -> <<"&","g","t",";">>
    [] ch = "\"" -> <<"&","q","u","o","t",";">>
    [] ch = "'" -> <<"&","#","0","3","9",";">>
    [] OTHER -> <<ch>>

\* the entities of the characters of s, in order
RECURSIVE EachEscapedOnce(_)
EachEscapedOnce(s) ==
  IF s = <<>> THEN <<>> ELSE EntityOf(Head(s)) \o EachEscapedOnce(Tail(s))

\* C17: the name shown in the detail panel is the contact's name with each
\* of & < > " ' replaced by its entity exactly once (an ampersand that a
\* replacement introduced is not replaced again) and every other character
\* kept, and it holds no raw <, >, " or '.
C17_EscapedOnce ==
  lastEvent.op = "select" =>
    LET shown == tabContent.name
    IN  /\ shown = EachEscapedOnce(lastEvent.contact.name)
        /\ \A i \in 1..Len(shown) : shown[i] \notin {"<", ">", "\"", "'"}

C17_Witness ==
  /\ lastEvent.op = "select"
  /\ lastEvent.contact.name = <<"<", "&", "'">>
  /\ tabContent.name = <<"&","l","t",";", "&","a","m","p",";", "&","#","0","3","9",";">>

\* C18: the selected contact id is null or the id of a stored contact; and
\* while the contact fetch is pending, and after it has failed, no contact
\* is selected and no related-data load has been started.
C18_SelectionIsStored ==
  /\ \/ selectedContactId = Null
     \/ \E i \in 1..Len(contacts) : contacts[i].id = selectedContactId
  /\ fetch \in {"none", "pending", "rejected"} =>
       /\ selectedContactId = Null
       /\ contacts = <<>>
       /\ pending = <<>>
       /\ loadsStarted = 0
       /\ tabContent.kind # "related"
       /\ (phase = "ready" => contactList.cards = <<>>)

\* a contact is selected that the search has since removed from the list,
\* and a load for it has resolved
C18_Witness ==
  /\ selectedContactId = <<"1">>
  /\ contacts # <<>>
  /\ contactList.cards = <<>>
  /\ loadsStarted > 0
  /\ tabContent.kind = "related"

\* C19: a chart with the series "Contacts" counts the stored contacts by the
\* field of the toggle that is marked active, by city while By City is
\* active and by job while By Job is, after every toggle, chart-type change,
\* selection and tab click.
C19_ChartFollowsToggle ==
  (/\ lastEvent.op \in {"byCity", "byJob", "chartType", "select", "tab"}
   /\ chart # NoChart
   /\ chart.label = "Contacts") =>
    /\ "byCity" \in activeBtns => IsGroupingBy(chart, contacts, City)
    /\ "byJob" \in activeBtns => IsGroupingBy(chart, contacts, Job)

\* C20: the k-th load that is started is eventually resolved, for every k,
\* and the text "Loading related records..." is eventually replaced; and
\* whenever no load is pending, a contact is selected and an entity tab X is
\* the active tab, the tab content is the record list of X, with as many
\* records as the count of X says.
C20_LoadsResolve ==
  /\ \A k \in 1..MaxLoads :
       (loadsStarted >= k) ~> (loadsStarted - Len(pending) >= k)
  /\ (tabContent = Text("Loading related records...")) ~>
       (tabContent # Text("Loading related records..."))
  /\ [](\A X \in EntitySet :
          (pending = <<>> /\ selectedContactId # Null /\ activeTabs = {X}) =>
            /\ tabContent.kind = "related"
            /\ tabContent.entity = Chars(X)
            /\ tabContent.total = entityCounts[X]
            /\ Len(tabContent.items) = tabContent.total)

C20_Witness ==
  /\ lastEvent.op = "loadResolve"
  /\ pending = <<>>
  /\ loadsStarted = MaxLoads
  /\ selectedContactId # Null
  /\ activeTabs = {"leads"}
  /\ tabContent.kind = "related"
  /\ tabContent.entity = <<"l","e","a","d","s">>
  /\ entityCounts["orders"] > 0

====
